---- MODULE Spec2Model ----
(***************************************************************************)
(* Model of inferringAndExpanding.py: a review file is read and split on   *)
(* a delimiter, every non-empty blob is parsed by line prefixes, enriched  *)
(* by three remote calls on one chat session, appended to an in-memory     *)
(* list, and the list is written to a CSV file at the end.  Strings are    *)
(* sequences of one-character strings.                                     *)
(***************************************************************************)
EXTENDS Integers, Sequences, FiniteSets, TLC

\* ------------------------------------------------------------------------
\* Bounds of the model
\* ------------------------------------------------------------------------
\* largest number of pieces an input file is concatenated from
MaxFilePieces == 3
\* largest number of pieces a blob handed to extract_review_info is made of
MaxBlobPieces == 4

\* ------------------------------------------------------------------------
\* String literals of the program
\* ------------------------------------------------------------------------
DefaultDelimiter == <<"-","-","-","E","N","D"," ","O","F"," ","R","E","V","I","E","W","-","-","-">>
ProductPrefix == <<"P","r","o","d","u","c","t",":">>
ReviewPrefix == <<"R","e","v","i","e","w",":">>
Colon == <<":">>
Newline == <<"\n">>
Header == <<"Original Product", "Guessed Product", "Review", "Sentiment", "Reply">>
KeyErrorMessage == "API key not found in environment variables."

\* characters str.strip() removes (the ones the inputs below can contain)
Whitespace == {" ", "\t", "\n", "\r", "\f"}

UpperCase == <<"A","B","C","D","E","F","G","H","I","J","K","L","M","N","O","P","Q","R","S","T","U","V","W","X","Y","Z">>
LowerCase == <<"a","b","c","d","e","f","g","h","i","j","k","l","m","n","o","p","q","r","s","t","u","v","w","x","y","z">>

\* ------------------------------------------------------------------------
\* str methods
\* ------------------------------------------------------------------------
SetMin(S) == CHOOSE x \in S : \A y \in S : x <= y
SetMax(S) == CHOOSE x \in S : \A y \in S : x >= y

\* s.startswith(prefix)
startswith(s, prefix) ==
  /\ Len(s) >= Len(prefix)
  /\ SubSeq(s, 1, Len(prefix)) = prefix

\* s.strip()
strip(s) ==
  LET keep == {i \in 1..Len(s) : s[i] \notin Whitespace}
  IN IF keep = {} THEN <<>> ELSE SubSeq(s, SetMin(keep), SetMax(keep))

\* s.split(sep, maxsplit): leftmost non-overlapping occurrences of sep,
\* at most maxsplit cuts (maxsplit = -1: no limit)
split(s, sep, maxsplit) ==
  LET RECURSIVE scan(_, _, _)
      scan(i, start, n) ==
        IF n = 0 \/ i + Len(sep) - 1 > Len(s)
        THEN <<SubSeq(s, start, Len(s))>>
        ELSE IF SubSeq(s, i, i + Len(sep) - 1) = sep
             THEN <<SubSeq(s, start, i - 1)>> \o scan(i + Len(sep), i + Len(sep), n - 1)
             ELSE scan(i + 1, start, n)
  IN scan(1, 1, maxsplit)

lowerChar(c) ==
  IF \E i \in 1..Len(UpperCase) : UpperCase[i] = c
  THEN LowerCase[CHOOSE i \in 1..Len(UpperCase) : UpperCase[i] = c]
  ELSE c

\* s.lower()
lower(s) == [i \in 1..Len(s) |-> lowerChar(s[i])]

\* open(file_path, 'r').read(): text mode turns "\r\n" and "\r" into "\n"
RECURSIVE file_read(_)
file_read(raw) ==
  IF raw = <<>> THEN <<>>
  ELSE IF Head(raw) = "\r"
       THEN IF Len(raw) >= 2 /\ raw[2] = "\n"
            THEN Newline \o file_read(SubSeq(raw, 3, Len(raw)))
            ELSE Newline \o file_read(Tail(raw))
       ELSE <<Head(raw)>> \o file_read(Tail(raw))

\* ------------------------------------------------------------------------
\* read_reviews and extract_review_info
\* ------------------------------------------------------------------------
\* [review.strip() for review in reviews if review.strip()]
RECURSIVE StripNonEmpty(_)
StripNonEmpty(segs) ==
  IF segs = <<>> THEN <<>>
  ELSE IF strip(Head(segs)) # <<>>
       THEN <<strip(Head(segs))>> \o StripNonEmpty(Tail(segs))
       ELSE StripNonEmpty(Tail(segs))

\* variant: empty segments are kept
read_reviews_keep_empty(raw, delimiter) ==
  LET segs == split(file_read(raw), delimiter, -1)
  IN [i \in 1..Len(segs) |-> strip(segs[i])]

read_reviews(raw, delimiter) ==
  StripNonEmpty(split(file_read(raw), delimiter, -1))

\* line.split(":", 1)[1].strip(); the subscript raises IndexError when the
\* split has a single part
AfterColon(line) ==
  LET parts == split(line, Colon, 1)
  IN IF Len(parts) < 2 THEN [error |-> TRUE, text |-> <<>>]
     ELSE [error |-> FALSE, text |-> strip(parts[2])]

\* variant: the prefix is looked for after leading whitespace
ExtractLineLstrip(acc, line) ==
  LET lead == {i \in 1..Len(line) : line[i] \notin Whitespace}
      l == IF lead = {} THEN <<>> ELSE SubSeq(line, SetMin(lead), Len(line))
  IN IF startswith(l, ProductPrefix)
     THEN [acc EXCEPT !.product = AfterColon(l).text]
     ELSE IF startswith(l, ReviewPrefix)
          THEN [acc EXCEPT !.review_text = AfterColon(l).text]
          ELSE acc

\* one iteration of the loop over the lines
ExtractLine(acc, line) ==
  IF acc.error THEN acc
  ELSE IF startswith(line, ProductPrefix)
       THEN IF AfterColon(line).error THEN [acc EXCEPT !.error = TRUE]
            ELSE [acc EXCEPT !.product = AfterColon(line).text]
       ELSE IF startswith(line, ReviewPrefix)
            THEN IF AfterColon(line).error THEN [acc EXCEPT !.error = TRUE]
                 ELSE [acc EXCEPT !.review_text = AfterColon(line).text]
            ELSE acc

RECURSIVE ExtractLoop(_, _)
ExtractLoop(acc, lines) ==
  IF lines = <<>> THEN acc
  ELSE ExtractLoop(ExtractLine(acc, Head(lines)), Tail(lines))

\* variant: a blob without a Review: line is taken whole as the review text
extract_review_info_whole_blob(review) ==
  LET info == ExtractLoop([product |-> <<>>, review_text |-> <<>>, error |-> FALSE],
                          split(review, Newline, -1))
  IN IF \E i \in 1..Len(split(review, Newline, -1)) :
          startswith(split(review, Newline, -1)[i], ReviewPrefix)
     THEN info
     ELSE [info EXCEPT !.review_text = review]

extract_review_info(review) ==
  ExtractLoop([product |-> <<>>, review_text |-> <<>>, error |-> FALSE],
              split(review, Newline, -1))

\* ------------------------------------------------------------------------
\* Inputs: the environment, the input file, the remote model's answers
\* ------------------------------------------------------------------------
\* os.getenv('GEMINI_API_KEY') after load_dotenv(): None, '' or a key
EnvValues ==
  { [present |-> FALSE, value |-> <<>>],
    [present |-> TRUE, value |-> <<>>],
    [present |-> TRUE, value |-> <<"k">>] }

ProductLine == ProductPrefix \o <<" ","T">>
ReviewLine == ReviewPrefix \o <<"o","k"," ">>

FilePieces ==
  { DefaultDelimiter, ProductLine, ReviewLine, <<"\n">>, <<"\r">>, <<" ">>, <<"a">>, <<"-">> }

BlobPieces ==
  { ProductPrefix, ReviewPrefix, <<" ">>, <<"\n">>, <<"a">>, <<":">>, <<"b"," ">> }

RECURSIVE Concats(_, _)
Concats(pieces, n) ==
  IF n = 0 THEN {<<>>}
  ELSE LET shorter == Concats(pieces, n - 1)
       IN shorter \cup {s \o p : s \in shorter, p \in pieces}

FileInputs == Concats(FilePieces, MaxFilePieces)
BlobInputs == Concats(BlobPieces, MaxBlobPieces)

\* texts the remote model may answer with
GuessResponses == { <<" ","T","v","\n">>, <<"M","u","g">> }
SentimentResponses == { <<"P","o","s","i","t","i","v","e","\n">>, <<" ","N","E","G">> }
ReplyResponses == { <<"T","h","a","n","K","s","\n">> }

\* ------------------------------------------------------------------------
\* State
\* ------------------------------------------------------------------------
VARIABLES
  envKey,          \* value of the credential environment variable
  fileRaw,         \* content of the input file on disk
  pc,              \* position of the single thread of control
  err,             \* the exception raised in this run, "" when none
  printed,         \* messages printed by the top-level handler
  exit,            \* "running", "normal" (main returned) or "traceback"
  sessionCreated,  \* model.start_chat(...) has returned
  inputRead,       \* the input file has been opened and read
  reviews,         \* process_reviews: the list returned by read_reviews
  idx,             \* process_reviews: position of the for loop (1-based)
  local,           \* process_reviews: the loop body's local variables
  data,            \* process_reviews: accumulated rows
  trace,           \* remote calls, appends, pauses and writer calls, in order
  writerCalls,     \* the data argument of each save_to_csv invocation
  outOpened,       \* the output file has been opened for writing
  outFile,         \* the output file on disk
  blob,            \* input of a stand-alone extract_review_info call
  result           \* its result

vars == << envKey, fileRaw, pc, err, printed, exit, sessionCreated, inputRead,
           reviews, idx, local, data, trace, writerCalls, outOpened, outFile,
           blob, result >>

NoLocals ==
  [original_product |-> <<>>, review_text |-> <<>>, guessed_product |-> <<>>,
   sentiment |-> <<>>, reply |-> <<>>]

NoFile == [exists |-> FALSE, header |-> <<>>, rows |-> <<>>]

NoResult == [called |-> FALSE, product |-> <<>>, review_text |-> <<>>, error |-> FALSE]

Entry(kind, rev, text, sent, ret, ok) ==
  [kind |-> kind, rev |-> rev, text |-> text, sent |-> sent, ret |-> ret, ok |-> ok]

CallKinds == {"guess_product", "classify_sentiment", "generate_reply"}

Init ==
  /\ envKey \in EnvValues
  /\ fileRaw \in FileInputs
  /\ pc = "main"
  /\ err = ""
  /\ printed = <<>>
  /\ exit = "running"
  /\ sessionCreated = FALSE
  /\ inputRead = FALSE
  /\ reviews = <<>>
  /\ idx = 0
  /\ local = NoLocals
  /\ data = <<>>
  /\ trace = <<>>
  /\ writerCalls = <<>>
  /\ outOpened = FALSE
  /\ outFile = NoFile
  /\ blob = <<>>
  /\ result = NoResult

\* ------------------------------------------------------------------------
\* Exceptions
\* ------------------------------------------------------------------------
\* an exception leaves process_reviews (its frame and locals are dropped)
\* and reaches the except clause of main
Raise(e) ==
  /\ pc' = "except"
  /\ err' = e
  /\ reviews' = <<>>
  /\ idx' = 0
  /\ local' = NoLocals
  /\ data' = <<>>

\* variant: the handler prints and raises again
HandlerReraise ==
  /\ pc = "except"
  /\ printed' = Append(printed, err)
  /\ pc' = "done"
  /\ exit' = "traceback"
  /\ UNCHANGED << envKey, fileRaw, err, sessionCreated, inputRead, reviews, idx, local,
                  data, trace, writerCalls, outOpened, outFile, blob, result >>

\* except Exception as e: print(f"An error occurred: {e}")
Handler ==
  /\ pc = "except"
  /\ printed' = Append(printed, err)
  /\ pc' = "done"
  /\ exit' = "normal"
  /\ UNCHANGED << envKey, fileRaw, err, sessionCreated, inputRead, reviews, idx, local,
                  data, trace, writerCalls, outOpened, outFile, blob, result >>

\* ------------------------------------------------------------------------
\* main
\* ------------------------------------------------------------------------
\* variant: api_key is None
NotApiKeyNoneOnly(api_key) == ~api_key.present

\* not api_key
NotApiKey(api_key) == ~api_key.present \/ api_key.value = <<>>

CheckKey ==
  /\ pc = "main"
  /\ IF NotApiKey(envKey)
     THEN Raise(KeyErrorMessage)
     ELSE /\ pc' = "configure"
          /\ UNCHANGED << err, reviews, idx, local, data >>
  /\ UNCHANGED << envKey, fileRaw, printed, exit, sessionCreated, inputRead,
                  trace, writerCalls, outOpened, outFile, blob, result >>

\* genai.configure, GenerativeModel(...), model.start_chat(history=[])
StartChat ==
  /\ pc = "configure"
  /\ sessionCreated' = TRUE
  /\ pc' = "process"
  /\ UNCHANGED << envKey, fileRaw, err, printed, exit, inputRead, reviews, idx,
                  local, data, trace, writerCalls, outOpened, outFile, blob, result >>

StartChatFail ==
  /\ pc = "configure"
  /\ Raise("session setup failed")
  /\ UNCHANGED << envKey, fileRaw, printed, exit, sessionCreated, inputRead,
                  trace, writerCalls, outOpened, outFile, blob, result >>

\* ------------------------------------------------------------------------
\* process_reviews
\* ------------------------------------------------------------------------
ReadReviews ==
  /\ pc = "process"
  /\ inputRead' = TRUE
  /\ reviews' = read_reviews(fileRaw, DefaultDelimiter)
  /\ data' = <<>>
  /\ idx' = 1
  /\ pc' = "loop"
  /\ UNCHANGED << envKey, fileRaw, err, printed, exit, sessionCreated, local,
                  trace, writerCalls, outOpened, outFile, blob, result >>

ReadReviewsFail ==
  /\ pc = "process"
  /\ Raise("cannot open input file")
  /\ UNCHANGED << envKey, fileRaw, printed, exit, sessionCreated, inputRead,
                  trace, writerCalls, outOpened, outFile, blob, result >>

\* for review in reviews: original_product, review_text = extract_review_info(review)
NextReview ==
  /\ pc = "loop"
  /\ idx <= Len(reviews)
  /\ LET info == extract_review_info(reviews[idx])
     IN IF info.error
        THEN Raise("IndexError")
        ELSE /\ local' = [NoLocals EXCEPT !.original_product = info.product,
                                          !.review_text = info.review_text]
             /\ pc' = "guess"
             /\ UNCHANGED << err, reviews, idx, data >>
  /\ UNCHANGED << envKey, fileRaw, printed, exit, sessionCreated, inputRead,
                  trace, writerCalls, outOpened, outFile, blob, result >>

\* variant: the writer is skipped when there are no rows
LoopExitSkipEmptySave ==
  /\ pc = "loop"
  /\ idx > Len(reviews)
  /\ IF data = <<>>
     THEN /\ pc' = "done"
          /\ exit' = "normal"
     ELSE /\ pc' = "save"
          /\ exit' = exit
  /\ UNCHANGED << envKey, fileRaw, err, printed, sessionCreated, inputRead,
                  reviews, idx, local, data, trace, writerCalls, outOpened,
                  outFile, blob, result >>

LoopExit ==
  /\ pc = "loop"
  /\ idx > Len(reviews)
  /\ pc' = "save"
  /\ UNCHANGED << envKey, fileRaw, err, printed, exit, sessionCreated, inputRead,
                  reviews, idx, local, data, trace, writerCalls, outOpened,
                  outFile, blob, result >>

\* variant: a failed call is logged and the loop goes on with the next review
RemoteFailureContinue(kind) ==
  /\ trace' = Append(trace, Entry(kind, idx, local.review_text,
                                  IF kind = "generate_reply" THEN local.sentiment ELSE <<>>,
                                  <<>>, FALSE))
  /\ idx' = idx + 1
  /\ pc' = "loop"
  /\ UNCHANGED << envKey, fileRaw, err, printed, exit, sessionCreated, inputRead,
                  reviews, local, data, writerCalls, outOpened, outFile, blob, result >>

\* chat_session.send_message(...) raises (or reading .text does)
RemoteFailure(kind) ==
  /\ trace' = Append(trace, Entry(kind, idx, local.review_text,
                                  IF kind = "generate_reply" THEN local.sentiment ELSE <<>>,
                                  <<>>, FALSE))
  /\ Raise("remote call failed")
  /\ UNCHANGED << envKey, fileRaw, printed, exit, sessionCreated, inputRead,
                  writerCalls, outOpened, outFile, blob, result >>

\* guess_product(review_text, chat_session)
GuessCall ==
  /\ pc = "guess"
  /\ \E r \in GuessResponses :
       /\ trace' = Append(trace, Entry("guess_product", idx, local.review_text, <<>>, r, TRUE))
       /\ local' = [local EXCEPT !.guessed_product = strip(r)]
  /\ pc' = "classify"
  /\ UNCHANGED << envKey, fileRaw, err, printed, exit, sessionCreated, inputRead,
                  reviews, idx, data, writerCalls, outOpened, outFile, blob, result >>

GuessFail ==
  /\ pc = "guess"
  /\ RemoteFailure("guess_product")

\* variant: the answer is trimmed before it is lower-cased
ClassifyCallStripped ==
  /\ pc = "classify"
  /\ \E r \in SentimentResponses :
       /\ trace' = Append(trace, Entry("classify_sentiment", idx, local.review_text, <<>>, r, TRUE))
       /\ local' = [local EXCEPT !.sentiment = lower(strip(r))]
  /\ pc' = "reply"
  /\ UNCHANGED << envKey, fileRaw, err, printed, exit, sessionCreated, inputRead,
                  reviews, idx, data, writerCalls, outOpened, outFile, blob, result >>

\* analyze_sentiment: first message, sentiment = sentiment_response.text.lower()
ClassifyCall ==
  /\ pc = "classify"
  /\ \E r \in SentimentResponses :
       /\ trace' = Append(trace, Entry("classify_sentiment", idx, local.review_text, <<>>, r, TRUE))
       /\ local' = [local EXCEPT !.sentiment = lower(r)]
  /\ pc' = "reply"
  /\ UNCHANGED << envKey, fileRaw, err, printed, exit, sessionCreated, inputRead,
                  reviews, idx, data, writerCalls, outOpened, outFile, blob, result >>

ClassifyFail ==
  /\ pc = "classify"
  /\ RemoteFailure("classify_sentiment")

\* variant: the reply prompt leaves the sentiment out
ReplyCallNoSentiment ==
  /\ pc = "reply"
  /\ \E r \in ReplyResponses :
       /\ trace' = Append(trace, Entry("generate_reply", idx, local.review_text, <<>>, r, TRUE))
       /\ local' = [local EXCEPT !.reply = r]
  /\ pc' = "append"
  /\ UNCHANGED << envKey, fileRaw, err, printed, exit, sessionCreated, inputRead,
                  reviews, idx, data, writerCalls, outOpened, outFile, blob, result >>

\* analyze_sentiment: second message, reply = reply_response.text
ReplyCall ==
  /\ pc = "reply"
  /\ \E r \in ReplyResponses :
       /\ trace' = Append(trace, Entry("generate_reply", idx, local.review_text,
                                       local.sentiment, r, TRUE))
       /\ local' = [local EXCEPT !.reply = r]
  /\ pc' = "append"
  /\ UNCHANGED << envKey, fileRaw, err, printed, exit, sessionCreated, inputRead,
                  reviews, idx, data, writerCalls, outOpened, outFile, blob, result >>

ReplyFail ==
  /\ pc = "reply"
  /\ RemoteFailure("generate_reply")

\* variant: no pause after the last review
AppendRowNoTrailingPause ==
  /\ pc = "append"
  /\ data' = Append(data, << local.original_product, local.guessed_product,
                             local.review_text, local.sentiment, local.reply >>)
  /\ trace' = Append(trace, Entry("append", idx, <<>>, <<>>, <<>>, TRUE))
  /\ IF idx = Len(reviews)
     THEN pc' = "loop" /\ idx' = idx + 1
     ELSE pc' = "sleep" /\ idx' = idx
  /\ UNCHANGED << envKey, fileRaw, err, printed, exit, sessionCreated, inputRead,
                  reviews, local, writerCalls, outOpened, outFile, blob, result >>

\* data.append([original_product, guessed_product, review_text, sentiment, reply])
AppendRow ==
  /\ pc = "append"
  /\ data' = Append(data, << local.original_product, local.guessed_product,
                             local.review_text, local.sentiment, local.reply >>)
  /\ trace' = Append(trace, Entry("append", idx, <<>>, <<>>, <<>>, TRUE))
  /\ pc' = "sleep"
  /\ UNCHANGED << envKey, fileRaw, err, printed, exit, sessionCreated, inputRead,
                  reviews, idx, local, writerCalls, outOpened, outFile, blob, result >>

\* time.sleep(2), then the for loop advances
Sleep ==
  /\ pc = "sleep"
  /\ trace' = Append(trace, Entry("sleep", idx, <<>>, <<>>, <<>>, TRUE))
  /\ idx' = idx + 1
  /\ pc' = "loop"
  /\ UNCHANGED << envKey, fileRaw, err, printed, exit, sessionCreated, inputRead,
                  reviews, local, data, writerCalls, outOpened, outFile, blob, result >>

\* ------------------------------------------------------------------------
\* save_to_csv
\* ------------------------------------------------------------------------
\* save_to_csv(data, csv_file) is entered and open(csv_file, 'w') succeeds
SaveOpen ==
  /\ pc = "save"
  /\ writerCalls' = Append(writerCalls, data)
  /\ trace' = Append(trace, Entry("save", idx, <<>>, <<>>, <<>>, TRUE))
  /\ outOpened' = TRUE
  /\ outFile' = [exists |-> TRUE, header |-> <<>>, rows |-> <<>>]
  /\ pc' = "write"
  /\ UNCHANGED << envKey, fileRaw, err, printed, exit, sessionCreated, inputRead,
                  reviews, idx, local, data, blob, result >>

\* save_to_csv(data, csv_file) is entered and open(csv_file, 'w') raises
SaveOpenFail ==
  /\ pc = "save"
  /\ writerCalls' = Append(writerCalls, data)
  /\ trace' = Append(trace, Entry("save", idx, <<>>, <<>>, <<>>, FALSE))
  /\ Raise("cannot open output file")
  /\ UNCHANGED << envKey, fileRaw, printed, exit, sessionCreated, inputRead,
                  outOpened, outFile, blob, result >>

\* writer.writerow(header); writer.writerows(data); process_reviews and main return
SaveWrite ==
  /\ pc = "write"
  /\ outFile' = [exists |-> TRUE, header |-> <<Header>>, rows |-> data]
  /\ pc' = "done"
  /\ exit' = "normal"
  /\ reviews' = <<>>
  /\ idx' = 0
  /\ local' = NoLocals
  /\ data' = <<>>
  /\ UNCHANGED << envKey, fileRaw, err, printed, sessionCreated, inputRead,
                  trace, writerCalls, outOpened, blob, result >>

\* a write raises part-way: the file keeps what had been written
SaveWriteFail ==
  /\ pc = "write"
  /\ \E h \in 0..1 : \E k \in 0..Len(data) :
       /\ h = 0 => k = 0
       /\ outFile' = [exists |-> TRUE,
                      header |-> IF h = 1 THEN <<Header>> ELSE <<>>,
                      rows |-> SubSeq(data, 1, k)]
  /\ Raise("cannot write output file")
  /\ UNCHANGED << envKey, fileRaw, printed, exit, sessionCreated, inputRead,
                  trace, writerCalls, outOpened, blob, result >>

Next ==
  \/ CheckKey
  \/ StartChat
  \/ StartChatFail
  \/ ReadReviews
  \/ ReadReviewsFail
  \/ NextReview
  \/ LoopExit
  \/ GuessCall
  \/ GuessFail
  \/ ClassifyCall
  \/ ClassifyFail
  \/ ReplyCall
  \/ ReplyFail
  \/ AppendRow
  \/ Sleep
  \/ SaveOpen
  \/ SaveOpenFail
  \/ SaveWrite
  \/ SaveWriteFail
  \/ Handler

Spec == Init /\ [][Next]_vars

\* ------------------------------------------------------------------------
\* extract_review_info on its own, over arbitrary blobs
\* ------------------------------------------------------------------------
InitExtract ==
  /\ envKey = [present |-> FALSE, value |-> <<>>]
  /\ fileRaw = <<>>
  /\ pc = "extract"
  /\ err = ""
  /\ printed = <<>>
  /\ exit = "running"
  /\ sessionCreated = FALSE
  /\ inputRead = FALSE
  /\ reviews = <<>>
  /\ idx = 0
  /\ local = NoLocals
  /\ data = <<>>
  /\ trace = <<>>
  /\ writerCalls = <<>>
  /\ outOpened = FALSE
  /\ outFile = NoFile
  /\ blob \in BlobInputs
  /\ result = NoResult

ExtractCall ==
  /\ pc = "extract"
  /\ ~result.called
  /\ LET info == extract_review_info(blob)
     IN result' = [called |-> TRUE, product |-> info.product,
                   review_text |-> info.review_text, error |-> info.error]
  /\ UNCHANGED << envKey, fileRaw, pc, err, printed, exit, sessionCreated, inputRead,
                  reviews, idx, local, data, trace, writerCalls, outOpened, outFile,
                  blob >>

NextExtract == ExtractCall

SpecExtract == InitExtract /\ [][NextExtract]_vars

\* ------------------------------------------------------------------------
\* Vocabulary of the properties, stated without the program's operators
\* ------------------------------------------------------------------------
\* s with leading and trailing whitespace removed
RECURSIVE Trimmed(_)
Trimmed(s) ==
  IF s = <<>> THEN s
  ELSE IF Head(s) \in Whitespace THEN Trimmed(Tail(s))
       ELSE IF s[Len(s)] \in Whitespace THEN Trimmed(SubSeq(s, 1, Len(s) - 1))
            ELSE s

\* the segments of s between successive occurrences of the delimiter
RECURSIVE Segments(_)
Segments(s) ==
  LET n == Len(DefaultDelimiter)
      occ == {i \in 1..(Len(s) - n + 1) : SubSeq(s, i, i + n - 1) = DefaultDelimiter}
  IN IF occ = {} THEN <<s>>
     ELSE <<SubSeq(s, 1, SetMin(occ) - 1)>>
            \o Segments(SubSeq(s, SetMin(occ) + n, Len(s)))

IsNonEmpty(s) == s # <<>>

\* the non-empty trimmed segments of the text read from the input file
ExpectedBlobs ==
  LET segs == Segments(file_read(fileRaw))
  IN SelectSeq([i \in 1..Len(segs) |-> Trimmed(segs[i])], IsNonEmpty)

\* positions of b where a line starts with the prefix at column 0
LineStarts(b, prefix) ==
  {p \in 1..Len(b) : /\ p = 1 \/ b[p - 1] = "\n"
                     /\ p + Len(prefix) - 1 <= Len(b)
                     /\ SubSeq(b, p, p + Len(prefix) - 1) = prefix}

\* trimmed text after the first colon of the last line starting with the prefix
ExpectedField(b, prefix) ==
  IF LineStarts(b, prefix) = {} THEN <<>>
  ELSE LET p == SetMax(LineStarts(b, prefix))
           ends == {q \in p..Len(b) : b[q] = "\n"}
           q == IF ends = {} THEN Len(b) + 1 ELSE SetMin(ends)
           line == SubSeq(b, p, q - 1)
           c == SetMin({j \in 1..Len(line) : line[j] = ":"})
       IN Trimmed(SubSeq(line, c + 1, Len(line)))

\* t is s with every upper-case letter replaced by its lower-case letter
IsLowercasedForm(s, t) ==
  /\ Len(t) = Len(s)
  /\ \A i \in 1..Len(s) :
       \/ \E j \in 1..Len(UpperCase) : s[i] = UpperCase[j] /\ t[i] = LowerCase[j]
       \/ /\ \A j \in 1..Len(UpperCase) : s[i] # UpperCase[j]
          /\ t[i] = s[i]

\* s consists of delimiters and whitespace only
RECURSIVE IsBlank(_)
IsBlank(s) ==
  \/ s = <<>>
  \/ /\ s # <<>>
     /\ Head(s) \in Whitespace
     /\ IsBlank(Tail(s))
  \/ /\ Len(s) >= Len(DefaultDelimiter)
     /\ SubSeq(s, 1, Len(DefaultDelimiter)) = DefaultDelimiter
     /\ IsBlank(SubSeq(s, Len(DefaultDelimiter) + 1, Len(s)))

IsCall(e) == e.kind \in CallKinds
Calls == SelectSeq(trace, IsCall)
IsSleep(e) == e.kind = "sleep"
Sleeps == SelectSeq(trace, IsSleep)
FailedCallAt(k) == trace[k].kind \in CallKinds /\ ~trace[k].ok
KindAt(k) ==
  IF (k - 1) % 3 = 0 THEN "guess_product"
  ELSE IF (k - 1) % 3 = 1 THEN "classify_sentiment" ELSE "generate_reply"

\* ------------------------------------------------------------------------
\* Properties
\* ------------------------------------------------------------------------
\* C1: the rows handed to the writer correspond one-to-one and in order to
\* the non-empty trimmed segments of the input: as many rows as blobs, and
\* row i carries the product and review text extracted from the i-th blob.
C1_RowsMatchBlobs ==
  \A w \in 1..Len(writerCalls) :
    /\ Len(writerCalls[w]) = Len(ExpectedBlobs)
    /\ \A i \in 1..Len(writerCalls[w]) :
         /\ writerCalls[w][i][1] = extract_review_info(ExpectedBlobs[i]).product
         /\ writerCalls[w][i][3] = extract_review_info(ExpectedBlobs[i]).review_text

C1_Witness ==
  /\ Len(writerCalls) = 1
  /\ Len(writerCalls[1]) = 2
  /\ writerCalls[1][1][1] # writerCalls[1][2][1]

\* C2: once a remote call has raised, nothing follows it: no further call,
\* append or pause, the writer is never invoked, the output file is never
\* opened or created, and the accumulated rows are gone.
C2_FailureAborts ==
  \A k \in 1..Len(trace) :
    FailedCallAt(k) =>
      /\ k = Len(trace)
      /\ writerCalls = <<>>
      /\ ~outOpened
      /\ ~outFile.exists
      /\ data = <<>>
      /\ pc \in {"except", "done"}

C2_Witness ==
  /\ pc = "done"
  /\ Len(trace) > 5
  /\ FailedCallAt(Len(trace))
  /\ trace[Len(trace)].rev = 2
  /\ trace[5].kind = "sleep"

C4_CallOrder ==
  /\ \A k \in 1..Len(Calls) :
       /\ Calls[k].kind = KindAt(k)
       /\ Calls[k].rev = ((k - 1) \div 3) + 1
       /\ Calls[k].rev <= Len(ExpectedBlobs)
       /\ Calls[k].text = extract_review_info(ExpectedBlobs[Calls[k].rev]).review_text
       /\ k < Len(Calls) => Calls[k].ok
       /\ Calls[k].kind = "generate_reply" =>
            IsLowercasedForm(Calls[k - 1].ret, Calls[k].sent)
  /\ writerCalls # <<>> => Len(Calls) = 3 * Len(ExpectedBlobs)

C4_Witness ==
  /\ writerCalls # <<>>
  /\ Len(Calls) = 6
  /\ Calls[5].ret # Calls[6].sent
  /\ Calls[2].ret # Calls[5].ret

\* C5: for an input of whitespace and delimiters only, no remote call is
\* issued, the writer is invoked with no rows, and the file it produces
\* holds the header row and nothing else.
C5_BlankInputHeaderOnly ==
  IsBlank(fileRaw) =>
    /\ Calls = <<>>
    /\ (inputRead /\ pc \in {"write", "except", "done"}) => writerCalls = << <<>> >>
    /\ (pc = "done" /\ err = "") =>
         outFile = [exists |-> TRUE, header |-> <<Header>>, rows |-> <<>>]

C5_Witness ==
  /\ IsBlank(fileRaw)
  /\ Len(fileRaw) > Len(DefaultDelimiter)
  /\ pc = "done"
  /\ outFile = [exists |-> TRUE, header |-> <<Header>>, rows |-> <<>>]

\* C6: for a blob with no line beginning with Review:, every remote call of
\* that review receives the empty string, and its row has an empty review
\* text and was preceded by all three calls.
C6_NoReviewLine ==
  /\ \A k \in 1..Len(Calls) :
       ( /\ Calls[k].rev <= Len(ExpectedBlobs)
         /\ LineStarts(ExpectedBlobs[Calls[k].rev], ReviewPrefix) = {} )
       => Calls[k].text = <<>>
  /\ \A w \in 1..Len(writerCalls) : \A i \in 1..Len(writerCalls[w]) :
       ( /\ i <= Len(ExpectedBlobs)
         /\ LineStarts(ExpectedBlobs[i], ReviewPrefix) = {} )
       => /\ writerCalls[w][i][3] = <<>>
          /\ \A kind \in CallKinds :
               \E k \in 1..Len(Calls) :
                 /\ Calls[k].kind = kind
                 /\ Calls[k].rev = i
                 /\ Calls[k].ok
                 /\ Calls[k].text = <<>>

C6_Witness ==
  /\ Len(writerCalls) = 1
  /\ Len(writerCalls[1]) = 2
  /\ LineStarts(ExpectedBlobs[2], ReviewPrefix) = {}
  /\ LineStarts(ExpectedBlobs[1], ReviewPrefix) # {}
  /\ writerCalls[1][1][3] # <<>>
  /\ writerCalls[1][2][3] = <<>>

\* C7: the sentiment field of every row is the lower-cased form of the text
\* the review's classification call returned, of the same length and with
\* nothing trimmed, and lower-casing it again changes nothing.
C7_SentimentLowercased ==
  \A w \in 1..Len(writerCalls) : \A i \in 1..Len(writerCalls[w]) :
    /\ 3 * i - 1 <= Len(Calls)
    /\ Calls[3 * i - 1].kind = "classify_sentiment"
    /\ Calls[3 * i - 1].rev = i
    /\ IsLowercasedForm(Calls[3 * i - 1].ret, writerCalls[w][i][4])
    /\ lower(writerCalls[w][i][4]) = writerCalls[w][i][4]

C7_Witness ==
  /\ Len(writerCalls) = 1
  /\ Len(writerCalls[1]) = 1
  /\ writerCalls[1][1][4] # Calls[2].ret
  /\ writerCalls[1][1][4][1] \in Whitespace

\* C8: every error is caught by the handler of main: the run ends in the
\* state a successful run ends in, with exactly one message printed when an
\* error was raised and none otherwise, and no error leaves main.
C8_AllErrorsCaught ==
  /\ exit # "traceback"
  /\ pc = "except" => (err # "" /\ printed = <<>> /\ exit = "running")
  /\ pc = "done" =>
       /\ exit = "normal"
       /\ printed = (IF err = "" THEN <<>> ELSE <<err>>)

C8_Witness ==
  /\ pc = "done"
  /\ err = "cannot write output file"
  /\ printed = <<err>>
  /\ exit = "normal"
  /\ outFile.exists

\* C9 as stated: the pause is taken only between consecutive reviews, so a
\* run over n >= 1 reviews that reaches the writer has paused n-1 times and
\* the writer directly follows the append of the last row.
C9_PauseOnlyBetweenReviews ==
  \A k \in 1..Len(trace) :
    (trace[k].kind = "save" /\ k > 1) =>
      /\ trace[k - 1].kind = "append"
      /\ Len(Sleeps) = Len(writerCalls[1]) - 1

\* C9 as amended: a pause follows the append of every row, the last one
\* included: each append is directly followed by the pause of the same
\* review, each pause directly follows an append, the next remote call or
\* the writer comes after that pause, and a run over n reviews that reaches
\* the writer has paused n times.
C9_PauseAfterEveryReview ==
  /\ \A k \in 1..Len(trace) :
       /\ (trace[k].kind = "append" /\ k < Len(trace)) =>
            (trace[k + 1].kind = "sleep" /\ trace[k + 1].rev = trace[k].rev)
       /\ trace[k].kind = "sleep" =>
            (k > 1 /\ trace[k - 1].kind = "append")
       /\ (trace[k].kind = "save" /\ k > 1) => trace[k - 1].kind = "sleep"
       /\ (trace[k].kind = "guess_product" /\ k > 1) =>
            (trace[k - 1].kind = "sleep" /\ trace[k - 1].rev = trace[k].rev - 1)
  /\ \A w \in 1..Len(writerCalls) : Len(Sleeps) = Len(writerCalls[w])

C9_Witness ==
  /\ Len(writerCalls) = 1
  /\ Len(writerCalls[1]) = 2
  /\ Len(Sleeps) = 2
  /\ trace[Len(trace)].kind = "save"
  /\ trace[Len(trace) - 1].kind = "sleep"

\* C10: extract_review_info raises no error and returns, for each of the
\* two prefixes, the trimmed text after the first colon of the last line
\* that begins with the prefix at column 0, or the empty string when no
\* line does; other lines change nothing.
C10_ExtractLastPrefixedLine ==
  result.called =>
    /\ ~result.error
    /\ result.product = ExpectedField(blob, ProductPrefix)
    /\ result.review_text = ExpectedField(blob, ReviewPrefix)

C10_Witness ==
  /\ result.called
  /\ Cardinality(LineStarts(blob, ProductPrefix)) = 2
  /\ result.product # <<>>
  /\ blob[Len(ProductPrefix) + 1] = "\n"

====
